---- MODULE Spec2Model ----
(***************************************************************************)
(* Model of the CRM Lead WhatsApp integration                              *)
(* (walue_whatsapp_client/public/js/crm_lead.js).                          *)
(*                                                                         *)
(* The program is an event-driven UI controller.  Every action below is    *)
(* one handler run to completion by the browser's event loop: a button     *)
(* click, the callback of a frappe.call, a setTimeout / setInterval        *)
(* callback.  Requests in flight, pending timeouts and open dialogs are    *)
(* the state that links one handler to the next.                           *)
(*                                                                         *)
(* frappe.call invokes `callback` with the response r when the request     *)
(* succeeds at transport level; r.message may be absent.  None of the      *)
(* call sites passes an `error` or `always` handler, so a request that     *)
(* fails at transport level runs no code of this program.                  *)
(***************************************************************************)
EXTENDS Integers, Sequences, FiniteSets, TLC

\* ------------------------------------------------------------------ bounds
MaxSessions == 2   \* call attempts that may be under way at once
MaxInFlight == 2   \* endCall requests in flight per call widget
MaxSeconds  == 2   \* ticks counted by the elapsed timer
MaxHandlers == 4   \* handlers registered per realtime event name
MaxTicks    == 130 \* ticks and format_duration arguments of the timer run

\* ------------------------------------------------------- backend responses
Errors    == {"E1", "E2"}          \* values of the `error` field
Messages  == {"M1", "M2"}             \* values of PermissionStatus.message
Durations == {5, 125}              \* values of duration_seconds

NoMessage == [present |-> FALSE]   \* a response r with r.message absent

PermissionResponses ==
    {NoMessage} \cup
    {[present |-> TRUE, can_call |-> c, can_request |-> q, message |-> m] :
        c \in BOOLEAN, q \in BOOLEAN, m \in Messages}

ResultResponses ==
    {NoMessage} \cup {[present |-> TRUE, success |-> TRUE]} \cup
    {[present |-> TRUE, success |-> FALSE, error |-> e] : e \in Errors}

EndResponses ==
    {NoMessage} \cup
    {[present |-> TRUE, success |-> TRUE, duration_seconds |-> d] : d \in Durations} \cup
    {[present |-> TRUE, success |-> FALSE, error |-> e] : e \in Errors}

\* check_conversation_window: the message may be absent, or lack in_window
WindowResponses ==
    {NoMessage, [present |-> TRUE, has_in_window |-> FALSE]} \cup
    {[present |-> TRUE, has_in_window |-> TRUE, in_window |-> b] : b \in BOOLEAN}

\* get_templates: a bare list, or an object with success and templates
Template(name) == [template_name |-> name]
TemplateLists == {<<>>, <<Template("A")>>, <<Template("A"), Template("B")>>}

TemplateResponses ==
    {NoMessage} \cup
    {[present |-> TRUE, isArray |-> TRUE, templates |-> l] : l \in TemplateLists} \cup
    {[present |-> TRUE, isArray |-> FALSE, success |-> s, has_templates |-> FALSE] :
        s \in BOOLEAN} \cup
    {[present |-> TRUE, isArray |-> FALSE, success |-> s, has_templates |-> TRUE,
      templates |-> l] : s \in BOOLEAN, l \in TemplateLists}

SyncedCounts == {2}

SyncResponses ==
    {NoMessage} \cup
    {[present |-> TRUE, success |-> TRUE, synced_count |-> n] : n \in SyncedCounts} \cup
    {[present |-> TRUE, success |-> FALSE, error |-> e] : e \in Errors}

Texts == {"", "hi"}                \* what the user may type as a message

\* r.message && r.message.success
Succeeded(r) == r.present /\ r.success

\* ------------------------------------------------------------- UI effects
\* What a handler shows or does to the view.  `args` carries the numbers
\* substituted into a translated message.
Effect(kind, title, text, args) ==
    [kind |-> kind, title |-> title, text |-> text, args |-> args]
msgprint(title, text)  == Effect("msgprint", title, text, <<>>)
show_alert(text, ind)  == Effect("show_alert", ind, text, <<>>)
confirm(text)          == Effect("confirm", "", text, <<>>)
reload_doc             == Effect("reload_doc", "", "", <<>>)
dialog_show(what)      == Effect("dialog.show", what, "", <<>>)
dialog_hide(what)      == Effect("dialog.hide", what, "", <<>>)

\* ------------------------------------------------------------------ state
VARIABLES
    phone,          \* frm.doc.whatsapp_number || frm.doc.mobile_no is set
    lead,           \* frm.doc.name, the document the form shows
    handlers,       \* handlers registered per realtime event name
    reloads,        \* frm.reload_doc() calls whose refresh is still to come
    shown,          \* alerts shown by the realtime event handled last
    fmtIn,          \* the argument of the last format_duration call
    fmtOut,         \* its result
    checkPerm,      \* check_permission requests in flight
    prompts,        \* frappe.confirm prompts open
    reqPerm,        \* request_permission requests in flight (freeze)
    initiate,       \* calls.initiate requests in flight (freeze)
    sessions,       \* call widgets created so far, in order of creation
    endReq,         \* calls.end requests in flight, per call widget
    running,        \* setInterval timers that are active, by widget
    timerInterval,  \* the module-level handle: 0 (undefined) or a widget
    callSeconds,    \* the module-level counter
    windowReq,      \* check_conversation_window requests in flight
    tplReq,         \* get_templates requests of create_message_dialog in
                    \* flight, each with the window_status it was given
    dialog,         \* the compose dialog
    syncReq,        \* sync_templates requests in flight
    refreshReq,     \* get_templates requests of the sync callback in flight
    refreshOrder,   \* one entry per such request, oldest first: TRUE once
                    \* the response of a later request has been applied
    freshOptions,   \* the options carried by the response of the latest
                    \* issued get_templates request answered so far
    sendReq,        \* send_template / send_text requests in flight (freeze)
    last,           \* the handler that ran last and the response it got
    ui,             \* the UI effects of that handler
    rpc             \* the remote calls that handler issued

callVars == <<checkPerm, prompts, reqPerm, initiate, sessions, endReq,
              running, timerInterval, callSeconds>>
refreshVars == <<refreshOrder, freshOptions>>
composeVars == <<windowReq, tplReq, dialog, syncReq, refreshReq, refreshVars, sendReq>>
outVars  == <<last, ui, rpc>>
realtimeVars == <<lead, handlers, reloads, shown>>
formatVars == <<fmtIn, fmtOut>>
formVars == <<phone, realtimeVars, formatVars>>
vars     == <<formVars, callVars, composeVars, outVars>>

\* A request with freeze: true covers the page until its response arrives.
frozen == reqPerm + initiate + Cardinality(sendReq) > 0

Handled(h, r, s, effects, calls) ==
    /\ last' = [h |-> h, r |-> r, s |-> s]
    /\ ui'   = effects
    /\ rpc'  = calls

\* --------------------------------------------------------- timer display
DigitChar == <<"0", "1", "2", "3", "4", "5", "6", "7", "8", "9">>

RECURSIVE toString(_)
toString(n) ==
    IF n < 10 THEN <<DigitChar[n + 1]>>
    ELSE toString(n \div 10) \o <<DigitChar[(n % 10) + 1]>>

\* A padStart that pads nothing.
padStart2_none(str) == str

padStart2(str) == IF Len(str) < 2 THEN <<"0">> \o str ELSE str

\* walue_whatsapp.format_duration
format_duration(seconds) ==
    IF seconds = 0 THEN <<"0", "0", ":", "0", "0">>
    ELSE padStart2(toString(seconds \div 60)) \o <<":">> \o padStart2(toString(seconds % 60))

\* `${mins}:${secs}` of startTimer's interval callback
TimerText(seconds) ==
    padStart2(toString(seconds \div 60)) \o <<":">> \o padStart2(toString(seconds % 60))

\* ------------------------------------------------------------------- Init
NewSession(id) ==
    [call_log_id |-> id,
     badge       |-> "Connecting...",
     open        |-> TRUE,
     timerShown  |-> FALSE,
     display     |-> TimerText(0),
     endClicked  |-> FALSE]

CallInit ==
    /\ checkPerm = 0
    /\ prompts = 0
    /\ reqPerm = 0
    /\ initiate = 0
    /\ sessions = <<>>
    /\ endReq = <<>>
    /\ running = {}
    /\ timerInterval = 0
    /\ callSeconds = 0

OutInit ==
    /\ last = [h |-> "init", r |-> NoMessage, s |-> 0]
    /\ ui = {}
    /\ rpc = {}

NoDialog == [created |-> FALSE]

ComposeInit ==
    /\ windowReq = 0
    /\ tplReq = {}
    /\ dialog = NoDialog
    /\ syncReq = 0
    /\ refreshReq = 0
    /\ refreshOrder = <<>>
    /\ freshOptions = <<>>
    /\ sendReq = {}

\* The form shows a saved lead and its refresh handler has run once.
RealtimeInit ==
    /\ lead = "L1"
    /\ handlers = 1
    /\ reloads = 0
    /\ shown = 0

FormatInit ==
    /\ fmtIn = 0
    /\ fmtOut = <<>>

Init ==
    /\ phone \in BOOLEAN
    /\ RealtimeInit
    /\ FormatInit
    /\ CallInit
    /\ ComposeInit
    /\ OutInit

\* ---------------------------------------------------- permission and call
\* Call attempts that may still produce a call widget.
Attempts == Len(sessions) + checkPerm + prompts + reqPerm + initiate

\* The 'WhatsApp Call' button exists only when the lead has a phone number.
click_whatsapp_call ==
    /\ phone
    /\ ~frozen
    /\ Attempts < MaxSessions
    /\ checkPerm' = checkPerm + 1
    /\ Handled("initiate_whatsapp_call", NoMessage, 0, {}, {"check_permission"})
    /\ UNCHANGED <<formVars, composeVars, prompts, reqPerm, initiate, sessions, endReq,
                   running, timerInterval, callSeconds>>

\* A callback that sends the request without asking.
ask_permission_unprompted(status) ==
    /\ reqPerm' = reqPerm + 1
    /\ Handled("check_permission", status, 0, {}, {"request_permission"})
    /\ UNCHANGED <<prompts, initiate>>

\* frappe.confirm(status.message + ..., function() { request_call_permission(frm) })
ask_permission(status) ==
    /\ prompts' = prompts + 1
    /\ Handled("check_permission", status, 0, {confirm(status.message)}, {})
    /\ UNCHANGED <<reqPerm, initiate>>

\* A callback that tests can_request before can_call.
PermissionBranch_request_first(status) ==
    IF status.can_request THEN "confirm"
    ELSE IF status.can_call THEN "start_call"
    ELSE "msgprint"

\* A callback whose last branch is missing: whoever cannot call is asked.
PermissionBranch_no_block(status) ==
    IF status.can_call THEN "start_call" ELSE "confirm"

\* The branch initiate_whatsapp_call's callback takes on a status.
PermissionBranch(status) ==
    IF status.can_call THEN "start_call"
    ELSE IF status.can_request THEN "confirm"
    ELSE "msgprint"

\* start_call(frm): the request freezes the page.
start_call(status) ==
    /\ initiate' = initiate + 1
    /\ Handled("check_permission", status, 0, {}, {"initiate"})
    /\ UNCHANGED <<prompts, reqPerm>>

check_permission_callback(r) ==
    /\ checkPerm > 0
    /\ checkPerm' = checkPerm - 1
    /\ IF ~r.present
       THEN /\ Handled("check_permission", r, 0, {}, {})
            /\ UNCHANGED <<prompts, reqPerm, initiate>>
       ELSE CASE PermissionBranch(r) = "start_call" -> start_call(r)
              [] PermissionBranch(r) = "confirm" -> ask_permission(r)
              [] OTHER ->
                   /\ Handled("check_permission", r, 0,
                              {msgprint("Cannot Call", r.message)}, {})
                   /\ UNCHANGED <<prompts, reqPerm, initiate>>
    /\ UNCHANGED <<formVars, composeVars, sessions, endReq, running, timerInterval,
                   callSeconds>>

check_permission_response == \E r \in PermissionResponses : check_permission_callback(r)

check_permission_error ==
    /\ checkPerm > 0
    /\ checkPerm' = checkPerm - 1
    /\ Handled("check_permission.error", NoMessage, 0, {}, {})
    /\ UNCHANGED <<formVars, composeVars, prompts, reqPerm, initiate, sessions, endReq,
                   running, timerInterval, callSeconds>>

\* The user answers Yes to the prompt: request_call_permission(frm).
confirm_yes ==
    /\ prompts > 0
    /\ ~frozen
    /\ prompts' = prompts - 1
    /\ reqPerm' = reqPerm + 1
    /\ Handled("confirm.yes", NoMessage, 0, {}, {"request_permission"})
    /\ UNCHANGED <<formVars, composeVars, checkPerm, initiate, sessions, endReq, running,
                   timerInterval, callSeconds>>

\* The user answers No or closes the prompt: no handler was registered.
confirm_no ==
    /\ prompts > 0
    /\ ~frozen
    /\ prompts' = prompts - 1
    /\ Handled("confirm.no", NoMessage, 0, {}, {})
    /\ UNCHANGED <<formVars, composeVars, checkPerm, reqPerm, initiate, sessions, endReq,
                   running, timerInterval, callSeconds>>

request_permission_callback(r) ==
    /\ reqPerm > 0
    /\ reqPerm' = reqPerm - 1
    /\ IF Succeeded(r)
       THEN Handled("request_permission", r, 0,
                    {show_alert("Permission request sent. You will be notified when approved.",
                                "green"),
                     reload_doc}, {})
       ELSE Handled("request_permission", r, 0,
                    {msgprint("Error",
                              IF r.present THEN r.error ELSE "Failed to send request")}, {})
    /\ UNCHANGED <<formVars, composeVars, checkPerm, prompts, initiate, sessions, endReq,
                   running, timerInterval, callSeconds>>

request_permission_response == \E r \in ResultResponses : request_permission_callback(r)

request_permission_error ==
    /\ reqPerm > 0
    /\ reqPerm' = reqPerm - 1
    /\ Handled("request_permission.error", NoMessage, 0, {}, {})
    /\ UNCHANGED <<formVars, composeVars, checkPerm, prompts, initiate, sessions, endReq,
                   running, timerInterval, callSeconds>>

\* show_call_widget: a new dialog is shown and initialize_webrtc arms the
\* two timeouts (1000 ms: Ringing, 3000 ms: Connected).  The badge tells
\* which of them are still pending.
show_call_widget ==
    /\ sessions' = Append(sessions, NewSession(Len(sessions) + 1))
    /\ endReq' = Append(endReq, 0)

start_call_callback(r) ==
    /\ initiate > 0
    /\ initiate' = initiate - 1
    /\ IF Succeeded(r)
       THEN /\ show_call_widget
            /\ Handled("initiate", r, Len(sessions) + 1, {dialog_show("call")}, {})
       ELSE /\ Handled("initiate", r, 0,
                       {msgprint("Call Failed",
                                 IF r.present THEN r.error ELSE "Could not initiate call")},
                       {})
            /\ UNCHANGED <<sessions, endReq>>
    /\ UNCHANGED <<formVars, composeVars, checkPerm, prompts, reqPerm, running, timerInterval,
                   callSeconds>>

initiate_response == \E r \in ResultResponses : start_call_callback(r)

initiate_error ==
    /\ initiate > 0
    /\ initiate' = initiate - 1
    /\ Handled("initiate.error", NoMessage, 0, {}, {})
    /\ UNCHANGED <<formVars, composeVars, checkPerm, prompts, reqPerm, sessions, endReq,
                   running, timerInterval, callSeconds>>

\* ----------------------------------------------------------- call widget
SetSession(s, field, value) == [sessions EXCEPT ![s][field] = value]

\* setTimeout(..., 1000) of initialize_webrtc
ringing_timeout(s) ==
    /\ sessions[s].badge = "Connecting..."
    /\ sessions' = SetSession(s, "badge", "Ringing...")
    /\ Handled("timeout.ringing", NoMessage, s, {}, {})
    /\ UNCHANGED <<formVars, composeVars, checkPerm, prompts, reqPerm, initiate, endReq,
                   running, timerInterval, callSeconds>>

\* startTimer(display): the counter is reset and a new interval replaces the
\* handle; an interval the handle named before keeps running.
startTimer(s) ==
    /\ callSeconds' = 0
    /\ timerInterval' = s
    /\ running' = running \cup {s}

\* setTimeout(..., 3000) of initialize_webrtc; it was armed together with
\* the 1000 ms timeout, so it runs after it.
connected_timeout(s) ==
    /\ sessions[s].badge = "Ringing..."
    /\ sessions' = [sessions EXCEPT ![s].badge = "Connected", ![s].timerShown = TRUE]
    /\ startTimer(s)
    /\ Handled("timeout.connected", NoMessage, s, {}, {})
    /\ UNCHANGED <<formVars, composeVars, checkPerm, prompts, reqPerm, initiate, endReq>>

\* The interval callback of startTimer, for the interval widget s started.
tick(s, limit) ==
    /\ s \in running
    /\ callSeconds < limit
    /\ callSeconds' = callSeconds + 1
    /\ sessions' = SetSession(s, "display", TimerText(callSeconds + 1))
    /\ Handled("interval.tick", NoMessage, s, {}, {})
    /\ UNCHANGED <<formVars, composeVars, checkPerm, prompts, reqPerm, initiate, endReq,
                   running, timerInterval>>

timer_tick(s) == tick(s, MaxSeconds)

\* clearInterval(timerInterval): only the interval the handle names stops.
clearInterval(handle) == running \ {handle}

\* The primary action of the call widget.
end_call(s) ==
    /\ sessions[s].open
    /\ ~frozen
    /\ endReq[s] < MaxInFlight
    /\ running' = clearInterval(timerInterval)
    /\ endReq' = [endReq EXCEPT ![s] = @ + 1]
    /\ sessions' = SetSession(s, "endClicked", TRUE)
    /\ Handled("end_call", NoMessage, s, {}, {"end"})
    /\ UNCHANGED <<formVars, composeVars, checkPerm, prompts, reqPerm, initiate, timerInterval,
                   callSeconds>>

\* A report taken from the local counter.
ReportedDuration_local(duration) == <<callSeconds \div 60, callSeconds % 60>>

\* mins = Math.floor(duration / 60), secs = duration % 60
ReportedDuration(duration) == <<duration \div 60, duration % 60>>

end_call_callback(s, r) ==
    /\ endReq[s] > 0
    /\ endReq' = [endReq EXCEPT ![s] = @ - 1]
    /\ sessions' = SetSession(s, "open", FALSE)
    /\ IF Succeeded(r)
       THEN Handled("end", r, s,
                    {dialog_hide("call"),
                     Effect("show_alert", "green", "Call ended. Duration: {0}m {1}s",
                            ReportedDuration(r.duration_seconds)),
                     reload_doc}, {})
       ELSE Handled("end", r, s, {dialog_hide("call")}, {})
    /\ UNCHANGED <<formVars, composeVars, checkPerm, prompts, reqPerm, initiate, running,
                   timerInterval, callSeconds>>

end_error(s) ==
    /\ endReq[s] > 0
    /\ endReq' = [endReq EXCEPT ![s] = @ - 1]
    /\ Handled("end.error", NoMessage, s, {}, {})
    /\ UNCHANGED <<formVars, composeVars, checkPerm, prompts, reqPerm, initiate, sessions,
                   running, timerInterval, callSeconds>>

\* The user closes the widget with the dialog's own close control; the
\* dialog is created without any handler for that.
dismiss_widget(s) ==
    /\ sessions[s].open
    /\ ~frozen
    /\ sessions' = SetSession(s, "open", FALSE)
    /\ Handled("dismiss", NoMessage, s, {dialog_hide("call")}, {})
    /\ UNCHANGED <<formVars, composeVars, checkPerm, prompts, reqPerm, initiate, endReq,
                   running, timerInterval, callSeconds>>

Widgets == DOMAIN sessions

ringing_timeout_fires   == \E s \in Widgets : ringing_timeout(s)
connected_timeout_fires == \E s \in Widgets : connected_timeout(s)
timer_ticks             == \E s \in Widgets : timer_tick(s)
click_end_call          == \E s \in Widgets : end_call(s)
end_response            == \E s \in Widgets : \E r \in EndResponses : end_call_callback(s, r)
end_transport_error     == \E s \in Widgets : end_error(s)
close_call_widget       == \E s \in Widgets : dismiss_widget(s)

Next ==
    \/ click_whatsapp_call
    \/ check_permission_response
    \/ check_permission_error
    \/ confirm_yes
    \/ confirm_no
    \/ request_permission_response
    \/ request_permission_error
    \/ initiate_response
    \/ initiate_error
    \/ ringing_timeout_fires
    \/ connected_timeout_fires
    \/ timer_ticks
    \/ click_end_call
    \/ end_response
    \/ end_transport_error
    \/ close_call_widget

\* --------------------------------------------------------------- composer
\* The compose dialog is modal: the model opens a new composer once the
\* previous dialog is closed and its requests have been answered.
composerIdle ==
    /\ windowReq = 0
    /\ tplReq = {}
    /\ ~(dialog.created /\ dialog.open)
    /\ syncReq = 0
    /\ refreshReq = 0
    /\ sendReq = {}

\* The 'Send Message' button: show_message_composer(frm).
click_send_message ==
    /\ phone
    /\ ~frozen
    /\ composerIdle
    /\ windowReq' = windowReq + 1
    /\ Handled("show_message_composer", NoMessage, 0, {},
               {"check_conversation_window"})
    /\ UNCHANGED <<formVars, callVars, tplReq, dialog, syncReq, refreshReq, refreshVars, sendReq>>

\* const window_status = r.message || {}
WindowStatus(r) == IF r.present THEN r ELSE [present |-> TRUE, has_in_window |-> FALSE]

\* the truth value of window_status.in_window
InWindow(ws) == ws.has_in_window /\ ws.in_window

check_conversation_window_callback(r) ==
    /\ windowReq > 0
    /\ windowReq' = windowReq - 1
    /\ tplReq' = tplReq \cup {WindowStatus(r)}
    /\ Handled("check_conversation_window", r, 0, {}, {"get_templates"})
    /\ UNCHANGED <<formVars, callVars, dialog, syncReq, refreshReq, refreshVars, sendReq>>

check_conversation_window_response ==
    \E r \in WindowResponses : check_conversation_window_callback(r)

check_conversation_window_error ==
    /\ windowReq > 0
    /\ windowReq' = windowReq - 1
    /\ Handled("check_conversation_window.error", NoMessage, 0, {}, {})
    /\ UNCHANGED <<formVars, callVars, tplReq, dialog, syncReq, refreshReq, refreshVars, sendReq>>

\* A normalisation that knows the object shape only.
InitialTemplates_object_only(r) ==
    IF r.present /\ ~r.isArray /\ r.success /\ r.has_templates THEN r.templates
    ELSE <<>>

\* The template list create_message_dialog takes from a get_templates response.
InitialTemplates(r) ==
    IF ~r.present THEN <<>>
    ELSE IF r.isArray THEN r.templates
    ELSE IF r.success /\ r.has_templates THEN r.templates
    ELSE <<>>

\* templates.map(t => t.template_name).join('\n'), as the Select's options
TemplateOptions(templates) == [i \in DOMAIN templates |-> templates[i].template_name]

\* Options that leave text out only on an explicit in_window of false.
MessageTypeOptions_open(ws) ==
    IF ws.has_in_window /\ ~ws.in_window THEN {"Template"} ELSE {"Template", "Text Message"}

MessageTypeOptions(ws) ==
    IF InWindow(ws) THEN {"Template", "Text Message"} ELSE {"Template"}

NewDialog(ws, templates) ==
    [created         |-> TRUE,
     open            |-> TRUE,
     window_status   |-> ws,
     banner          |-> ~InWindow(ws),
     typeOptions     |-> MessageTypeOptions(ws),
     message_type    |-> "Template",
     template_hidden |-> FALSE,
     text_hidden     |-> TRUE,
     templateOptions |-> TemplateOptions(templates),
     template_name   |-> "",
     text_message    |-> "",
     sync_disabled   |-> FALSE,
     sync_spin       |-> FALSE]

create_message_dialog_callback(ws, r) ==
    /\ ws \in tplReq
    /\ tplReq' = tplReq \ {ws}
    /\ dialog' = NewDialog(ws, InitialTemplates(r))
    /\ freshOptions' = TemplateOptions(InitialTemplates(r))
    /\ Handled("get_templates", r, 0, {dialog_show("compose")}, {})
    /\ UNCHANGED <<formVars, callVars, windowReq, syncReq, refreshReq, refreshOrder, sendReq>>

get_templates_response ==
    \E ws \in tplReq : \E r \in TemplateResponses : create_message_dialog_callback(ws, r)

get_templates_error ==
    /\ \E ws \in tplReq : tplReq' = tplReq \ {ws}
    /\ Handled("get_templates.error", NoMessage, 0, {}, {})
    /\ UNCHANGED <<formVars, callVars, windowReq, dialog, syncReq, refreshReq, refreshVars, sendReq>>

\* What the user can reach in the dialog.
usable == dialog.created /\ dialog.open /\ ~frozen

\* onchange of message_type
onchange(d) ==
    [d EXCEPT !.template_hidden = (d.message_type # "Template"),
              !.text_hidden     = (d.message_type # "Text Message")]

\* The user picks one of the offered message types.
select_message_type ==
    /\ usable
    /\ \E type \in dialog.typeOptions :
          dialog' = onchange([dialog EXCEPT !.message_type = type])
    /\ Handled("message_type.onchange", NoMessage, 0, {}, {})
    /\ UNCHANGED <<formVars, callVars, windowReq, tplReq, syncReq, refreshReq, refreshVars, sendReq>>

\* A value put into the field directly (dialog.set_value), whatever the
\* options offered: the Select itself does not restrict what the field holds.
set_message_type_directly ==
    /\ usable
    /\ \E type \in {"Template", "Text Message"} :
          /\ type \notin dialog.typeOptions
          /\ dialog' = onchange([dialog EXCEPT !.message_type = type])
    /\ Handled("message_type.set_value", NoMessage, 0, {}, {})
    /\ UNCHANGED <<formVars, callVars, windowReq, tplReq, syncReq, refreshReq, refreshVars, sendReq>>

select_template ==
    /\ usable
    /\ ~dialog.template_hidden
    /\ \E i \in DOMAIN dialog.templateOptions :
          dialog' = [dialog EXCEPT !.template_name = dialog.templateOptions[i]]
    /\ Handled("template_name.select", NoMessage, 0, {}, {})
    /\ UNCHANGED <<formVars, callVars, windowReq, tplReq, syncReq, refreshReq, refreshVars, sendReq>>

type_text ==
    /\ usable
    /\ ~dialog.text_hidden
    /\ \E text \in Texts : dialog' = [dialog EXCEPT !.text_message = text]
    /\ Handled("text_message.input", NoMessage, 0, {}, {})
    /\ UNCHANGED <<formVars, callVars, windowReq, tplReq, syncReq, refreshReq, refreshVars, sendReq>>

\* The user closes the compose dialog with the dialog's own close control.
close_composer ==
    /\ usable
    /\ dialog' = [dialog EXCEPT !.open = FALSE]
    /\ Handled("composer.dismiss", NoMessage, 0, {dialog_hide("compose")}, {})
    /\ UNCHANGED <<formVars, callVars, windowReq, tplReq, syncReq, refreshReq, refreshVars, sendReq>>

\* ---------------------------------------------------------- template sync
\* A click handler that leaves the button enabled.
sync_click_handler_keeps_enabled ==
    /\ dialog' = [dialog EXCEPT !.sync_spin = TRUE]
    /\ syncReq' = syncReq + 1
    /\ Handled("sync.click", NoMessage, 0, {}, {"sync_templates"})

\* The click handler of .sync-templates-btn.
sync_click_handler ==
    /\ dialog' = [dialog EXCEPT !.sync_spin = TRUE, !.sync_disabled = TRUE]
    /\ syncReq' = syncReq + 1
    /\ Handled("sync.click", NoMessage, 0, {}, {"sync_templates"})

\* The browser delivers no click to a disabled button.
click_sync ==
    /\ usable
    /\ ~dialog.sync_disabled
    /\ syncReq + refreshReq < MaxInFlight
    /\ sync_click_handler
    /\ UNCHANGED <<formVars, callVars, windowReq, tplReq, refreshReq, refreshVars, sendReq>>

sync_templates_callback(r) ==
    /\ syncReq > 0
    /\ syncReq' = syncReq - 1
    /\ dialog' = [dialog EXCEPT !.sync_spin = FALSE, !.sync_disabled = FALSE]
    /\ IF Succeeded(r)
       THEN /\ refreshReq' = refreshReq + 1
            /\ refreshOrder' = Append(refreshOrder, FALSE)
            /\ Handled("sync_templates", r, 0,
                       {Effect("show_alert", "green", "Synced {0} templates",
                               <<r.synced_count>>)},
                       {"get_templates"})
       ELSE /\ Handled("sync_templates", r, 0,
                       {show_alert(IF r.present THEN r.error ELSE "Sync failed", "red")},
                       {})
            /\ UNCHANGED <<refreshReq, refreshOrder>>
    /\ UNCHANGED <<formVars, callVars, windowReq, tplReq, freshOptions, sendReq>>

sync_templates_response == \E r \in SyncResponses : sync_templates_callback(r)

sync_templates_error ==
    /\ syncReq > 0
    /\ syncReq' = syncReq - 1
    /\ Handled("sync_templates.error", NoMessage, 0, {}, {})
    /\ UNCHANGED <<formVars, callVars, windowReq, tplReq, dialog, refreshReq, refreshVars, sendReq>>

\* The template list the sync callback takes from the second get_templates.
RefreshedTemplates(r2) ==
    IF r2.present /\ ~r2.isArray /\ r2.has_templates THEN r2.templates ELSE <<>>

\* The requests still in flight once the i-th oldest is answered: the
\* older ones have been overtaken.
Answered(order, i) ==
    [j \in 1..(Len(order) - 1) |-> IF j < i THEN TRUE ELSE order[j + 1]]

\* The requests still in flight once the i-th oldest is lost.
Dropped(order, i) ==
    [j \in 1..(Len(order) - 1) |-> IF j < i THEN order[j] ELSE order[j + 1]]

\* The responses arrive in any order; each callback overwrites the options.
refresh_templates_callback(r2) ==
    /\ refreshReq > 0
    /\ refreshReq' = refreshReq - 1
    /\ \E i \in DOMAIN refreshOrder :
          /\ freshOptions' = IF refreshOrder[i] THEN freshOptions
                             ELSE TemplateOptions(RefreshedTemplates(r2))
          /\ refreshOrder' = Answered(refreshOrder, i)
    /\ dialog' = [dialog EXCEPT
                    !.templateOptions = TemplateOptions(RefreshedTemplates(r2))]
    /\ Handled("get_templates.refresh", r2, 0, {}, {})
    /\ UNCHANGED <<formVars, callVars, windowReq, tplReq, syncReq, sendReq>>

refresh_templates_response == \E r2 \in TemplateResponses : refresh_templates_callback(r2)

refresh_templates_error ==
    /\ refreshReq > 0
    /\ refreshReq' = refreshReq - 1
    /\ \E i \in DOMAIN refreshOrder : refreshOrder' = Dropped(refreshOrder, i)
    /\ Handled("get_templates.refresh.error", NoMessage, 0, {}, {})
    /\ UNCHANGED <<formVars, callVars, windowReq, tplReq, dialog, syncReq, freshOptions,
                   sendReq>>

\* ------------------------------------------------------------------- send
\* A send that skips the presence checks.
missing_never(value) == FALSE

\* !template_name, !text: the field holds nothing
missing(value) == value = ""

\* The primary action of the compose dialog.
send_message ==
    /\ usable
    /\ IF dialog.message_type = "Template"
       THEN IF missing(dialog.template_name)
            THEN /\ Handled("send_message", NoMessage, 0,
                            {msgprint("", "Please select a template")}, {})
                 /\ UNCHANGED sendReq
            ELSE /\ sendReq' = sendReq \cup {"send_template"}
                 /\ Handled("send_message", NoMessage, 0, {}, {"send_template"})
       ELSE IF missing(dialog.text_message)
            THEN /\ Handled("send_message", NoMessage, 0,
                            {msgprint("", "Please enter a message")}, {})
                 /\ UNCHANGED sendReq
            ELSE /\ sendReq' = sendReq \cup {"send_text"}
                 /\ Handled("send_message", NoMessage, 0, {}, {"send_text"})
    /\ UNCHANGED <<formVars, callVars, windowReq, tplReq, dialog, syncReq, refreshReq, refreshVars>>

handle_send_response(method, response) ==
    IF Succeeded(response)
    THEN Handled(method, response, 0,
                 {dialog_hide("compose"),
                  show_alert("Message sent successfully", "green"),
                  reload_doc}, {})
    ELSE Handled(method, response, 0,
                 {dialog_hide("compose"),
                  msgprint("Failed",
                           IF response.present THEN response.error
                           ELSE "Could not send message")}, {})

\* The callback of send_template / send_text: dialog.hide(), then
\* handle_send_response(frm, r).
send_callback(method, r) ==
    /\ method \in sendReq
    /\ sendReq' = sendReq \ {method}
    /\ dialog' = [dialog EXCEPT !.open = FALSE]
    /\ handle_send_response(method, r)
    /\ UNCHANGED <<formVars, callVars, windowReq, tplReq, syncReq, refreshReq, refreshVars>>

send_response == \E method \in sendReq : \E r \in ResultResponses : send_callback(method, r)

send_error ==
    /\ \E method \in sendReq :
          /\ sendReq' = sendReq \ {method}
          /\ Handled(method \o ".error", NoMessage, 0, {}, {})
    /\ UNCHANGED <<formVars, callVars, windowReq, tplReq, dialog, syncReq, refreshReq, refreshVars>>

ComposeNext ==
    \/ click_send_message
    \/ check_conversation_window_response
    \/ check_conversation_window_error
    \/ get_templates_response
    \/ get_templates_error
    \/ select_message_type
    \/ set_message_type_directly
    \/ select_template
    \/ type_text
    \/ close_composer
    \/ click_sync
    \/ sync_templates_response
    \/ sync_templates_error
    \/ refresh_templates_response
    \/ refresh_templates_error
    \/ send_message
    \/ send_response
    \/ send_error

\* --------------------------------------------------------------- realtime
NewDoc == "new-crm-lead-1"         \* the name of a document not yet saved
Leads  == {"L1", "L2"}             \* saved leads
Docs   == Leads \cup {NewDoc}

is_new(doc) == doc = NewDoc        \* frm.is_new()

EventNames ==
    {"whatsapp_permission_update", "whatsapp_new_message", "whatsapp_message_status"}

EventData == {[present |-> TRUE, lead |-> l, can_call |-> c] : l \in Leads, c \in BOOLEAN}

\* The refresh handler on the document the form shows: the buttons are
\* rebuilt and setup_realtime_listeners registers one more handler per event
\* name; frappe.realtime.on adds, it never replaces.
setup_realtime_listeners(doc) ==
    handlers' = IF is_new(doc) THEN handlers ELSE handlers + 1

\* The user opens a document in the form; the form object is reused.
open_form ==
    /\ \E doc \in Docs :
          /\ lead' = doc
          /\ setup_realtime_listeners(doc)
    /\ handlers' <= MaxHandlers
    /\ phone' \in BOOLEAN
    /\ shown' = 0
    /\ Handled("refresh", NoMessage, 0, {}, {})
    /\ UNCHANGED <<reloads, formatVars, callVars, composeVars>>

\* frm.reload_doc() has fetched the document: refresh runs again.
reload_refresh ==
    /\ reloads > 0
    /\ reloads' = reloads - 1
    /\ setup_realtime_listeners(lead)
    /\ handlers' <= MaxHandlers
    /\ shown' = 0
    /\ Handled("refresh", NoMessage, 0, {}, {})
    /\ UNCHANGED <<phone, lead, formatVars, callVars, composeVars>>

\* A handler that does not look at the lead of the event.
Matches_any(data) == TRUE

\* data.lead === frm.doc.name
Matches(data) == data.lead = lead

\* What one handler of the event shows, if anything.
EventAlert(name, data) ==
    IF name = "whatsapp_permission_update"
    THEN IF data.can_call
         THEN show_alert("Call permission granted! You can now call this lead.", "green")
         ELSE show_alert("Call permission status updated", "orange")
    ELSE show_alert("New WhatsApp message received", "blue")

\* The number of registered handlers of the event that alert and reload.
Reacting(name, data) ==
    IF name # "whatsapp_message_status" /\ Matches(data) THEN handlers ELSE 0

\* The socket delivers an event: every handler registered for its name runs.
dispatch(name, data) ==
    /\ reloads + Reacting(name, data) <= MaxHandlers
    /\ shown' = Reacting(name, data)
    /\ reloads' = reloads + Reacting(name, data)
    /\ Handled(name, data, 0,
               IF Reacting(name, data) > 0 THEN {EventAlert(name, data), reload_doc}
               ELSE {},
               {})
    /\ UNCHANGED <<phone, lead, handlers, formatVars, callVars, composeVars>>

realtime_event == \E name \in EventNames : \E data \in EventData : dispatch(name, data)

RealtimeNext ==
    \/ open_form
    \/ reload_refresh
    \/ realtime_event

\* ------------------------------------------------------------ single call
\* The first call attempt of a run.
first_call == click_whatsapp_call /\ Attempts = 0

\* The interval of a connected call, left running for MaxTicks seconds.
timer_runs == \E s \in Widgets : tick(s, MaxTicks)

\* walue_whatsapp.format_duration(seconds), on any number of seconds
format_duration_call ==
    /\ \E seconds \in 0..MaxTicks :
          /\ fmtIn' = seconds
          /\ fmtOut' = format_duration(seconds)
    /\ Handled("format_duration", NoMessage, 0, {}, {})
    /\ UNCHANGED <<phone, realtimeVars, callVars, composeVars>>

\* One call, from the click to the end of the widget.
OneCallNext == Next /\ Attempts' <= 1

\* One call whose timer runs, and the formatting helper.
FormatNext ==
    \/ first_call
    \/ check_permission_response
    \/ initiate_response
    \/ ringing_timeout_fires
    \/ connected_timeout_fires
    \/ timer_runs
    \/ format_duration_call

\* The permission flow alone, up to the creation of the call widget.
PermissionNext ==
    \/ click_whatsapp_call
    \/ check_permission_response
    \/ check_permission_error
    \/ confirm_yes
    \/ confirm_no
    \/ request_permission_response
    \/ request_permission_error
    \/ initiate_response
    \/ initiate_error

Spec == Init /\ [][Next]_vars

SpecPermission == Init /\ [][PermissionNext]_vars

SpecCompose == Init /\ [][ComposeNext]_vars

SpecRealtime == Init /\ [][RealtimeNext]_vars

SpecOneCall == Init /\ [][OneCallNext]_vars

SpecFormat == Init /\ [][FormatNext]_vars

\* ================================================================= claims
\* The callbacks of the remote calls, by the name `last` records.
ResultCallbacks ==
    {"request_permission", "initiate", "end", "sync_templates",
     "send_template", "send_text"}
AllCallbacks ==
    ResultCallbacks \cup
    {"check_permission", "check_conversation_window", "get_templates",
     "get_templates.refresh"}
Notices(effects) == {e \in effects : e.kind \in {"msgprint", "show_alert"}}

\* C1: on a status with can_call=false and can_request=true the callback
\* only opens the prompt; a request_permission call is issued in no step
\* but the one in which the user confirms an open prompt, so a prompt that
\* is declined leads to no request.
C1_RequestOnlyOnConfirm ==
    [][/\ reqPerm' > reqPerm =>
            /\ prompts > 0
            /\ prompts' = prompts - 1
            /\ last'.h = "confirm.yes"
       /\ (/\ checkPerm' < checkPerm
           /\ last'.h = "check_permission"
           /\ last'.r.present
           /\ ~last'.r.can_call
           /\ last'.r.can_request) =>
            /\ reqPerm' = reqPerm
            /\ prompts' = prompts + 1
            /\ rpc' = {}
       /\ last'.h = "confirm.no" => reqPerm' = reqPerm /\ rpc' = {}]_vars

C1_Witness ==
    /\ last.h = "confirm.yes"
    /\ reqPerm = 1
    /\ rpc = {"request_permission"}

\* C2: with in_window=false in the dialog's window status, a send of kind
\* Text is rejected locally and send_text is never issued.
C2_TextRejectedOutsideWindow ==
    (dialog.created /\ ~InWindow(dialog.window_status)) =>
        /\ "send_text" \notin sendReq
        /\ (last.h = "send_message" /\ dialog.message_type # "Template") =>
              (rpc = {} /\ Notices(ui) # {})

\* C3: once the user has ended the call or the widget is closed, the
\* interval started for that widget is not running.
C3_TimerCancelledOnExit ==
    \A s \in Widgets :
        (sessions[s].endClicked \/ ~sessions[s].open) => s \notin running

\* C4: at most one sync_templates request is in flight, and while one is
\* in flight the sync button is disabled, so that a click does nothing.
C4_OneSyncInFlight ==
    /\ syncReq <= 1
    /\ syncReq > 0 => (dialog.created /\ dialog.sync_disabled)

C4_Witness ==
    /\ syncReq = 1
    /\ usable
    /\ dialog.sync_disabled
    /\ refreshReq = 0

\* C5: once the sync_templates request is no longer outstanding, whatever
\* its outcome, the sync button is enabled again.
C5_SyncReenabled ==
    (dialog.created /\ syncReq = 0) => ~dialog.sync_disabled

\* C6: on a status with can_call=false and can_request=false the callback
\* issues no remote call, opens no prompt and no widget, and shows only the
\* status message.
C6_BlockedOnlyShowsMessage ==
    [][(/\ checkPerm' < checkPerm
        /\ last'.h = "check_permission"
        /\ last'.r.present
        /\ ~last'.r.can_call
        /\ ~last'.r.can_request) =>
            /\ rpc' = {}
            /\ ui' = {msgprint("Cannot Call", last'.r.message)}
            /\ reqPerm' = reqPerm
            /\ initiate' = initiate
            /\ prompts' = prompts
            /\ sessions' = sessions]_vars

C6_Witness ==
    /\ last.h = "check_permission"
    /\ last.r.present
    /\ ~last.r.can_call
    /\ ~last.r.can_request
    /\ ui = {msgprint("Cannot Call", "M1")}

\* C7: on a status with can_call=true, whatever can_request is, the
\* callback issues initiate, without a prompt and without request_permission.
C7_CanCallStartsCall ==
    [][(/\ checkPerm' < checkPerm
        /\ last'.h = "check_permission"
        /\ last'.r.present
        /\ last'.r.can_call) =>
            /\ initiate' = initiate + 1
            /\ rpc' = {"initiate"}
            /\ ui' = {}
            /\ prompts' = prompts
            /\ reqPerm' = reqPerm]_vars

C7_Witness ==
    /\ last.h = "check_permission"
    /\ last.r.present
    /\ last.r.can_call
    /\ last.r.can_request
    /\ initiate = 1
    /\ prompts = 0

\* C8: a response with success=false and an error field is shown to the
\* user with that error text, and the callback issues no further call.
C8_BackendErrorSurfaced ==
    (last.h \in ResultCallbacks /\ last.r.present /\ ~last.r.success) =>
        /\ \E e \in Notices(ui) : e.text = last.r.error
        /\ rpc = {}

\* C9: a response without a message makes the callback show a failure
\* message; no callback ends silently.
C9_AbsentResponseReported ==
    (last.h \in AllCallbacks /\ ~last.r.present) => Notices(ui) # {}

\* C10: the handler of a failed initiate, end, send_template or send_text
\* leaves the call widgets and the compose dialog as they were and triggers
\* no reload of the lead.
C10_FailureKeepsView ==
    [][(/\ last'.h \in {"initiate", "end", "send_template", "send_text"}
        /\ ~Succeeded(last'.r)) =>
            /\ sessions' = sessions
            /\ dialog' = dialog
            /\ reload_doc \notin ui']_vars

\* C11: a send with the Template type and no template selected, or with the
\* text type and an empty text, issues no remote call, shows the local
\* prompt and leaves the compose dialog open and unchanged.
C11_EmptyChoiceBlocked ==
    [][(/\ last'.h = "send_message"
        /\ dialog.created
        /\ \/ dialog.message_type = "Template" /\ dialog.template_name = ""
           \/ dialog.message_type # "Template" /\ dialog.text_message = "") =>
            /\ sendReq' = sendReq
            /\ rpc' = {}
            /\ ui' = {msgprint("", IF dialog.message_type = "Template"
                                   THEN "Please select a template"
                                   ELSE "Please enter a message")}
            /\ dialog' = dialog
            /\ dialog'.open]_vars

C11_Witness ==
    /\ last.h = "send_message"
    /\ dialog.created /\ dialog.open
    /\ dialog.message_type = "Text Message"
    /\ dialog.text_message = ""
    /\ ui = {msgprint("", "Please enter a message")}
    /\ sendReq = {}

\* The template names of a list, in order.
Names(list) == [i \in 1..Len(list) |-> list[i].template_name]

\* C12: when the dialog is built, a bare list L and an object
\* {success: true, templates: L} both give the options of L; an absent
\* response, an object with success=false and an object without templates
\* give no options.
C12_InitialNormalised ==
    last.h = "get_templates" =>
        /\ (last.r.present /\ last.r.isArray) =>
              dialog.templateOptions = Names(last.r.templates)
        /\ (last.r.present /\ ~last.r.isArray /\ last.r.success /\ last.r.has_templates) =>
              dialog.templateOptions = Names(last.r.templates)
        /\ ~last.r.present => dialog.templateOptions = <<>>
        /\ (last.r.present /\ ~last.r.isArray /\ ~(last.r.success /\ last.r.has_templates)) =>
              dialog.templateOptions = <<>>

C12_Witness ==
    /\ last.h = "get_templates"
    /\ last.r.present
    /\ last.r.isArray
    /\ dialog.templateOptions = <<"A", "B">>

\* C13: the options set by the refresh after a successful sync are those
\* the initial load would have taken from the same response.
C13_RefreshNormalisedAlike ==
    last.h = "get_templates.refresh" =>
        dialog.templateOptions = TemplateOptions(InitialTemplates(last.r))

\* C20: once every refresh response has arrived, the options shown are
\* those of the get_templates request issued last, in whatever order the
\* responses came.
C20_LatestRefreshWins ==
    (dialog.created /\ refreshReq = 0) => dialog.templateOptions = freshOptions

\* C14: however often the form is refreshed, at most one handler per event
\* name is registered, and one event gives at most one alert.
C14_SingleSubscription ==
    /\ handlers <= 1
    /\ shown <= 1

\* C15: a permission_update or new_message event for the open lead alerts
\* and reloads; one for another lead, and every message_status event, shows
\* nothing and reloads nothing.
C15_EventsFilteredByLead ==
    [][last'.h \in EventNames =>
         IF last'.h # "whatsapp_message_status" /\ last'.r.lead = lead
         THEN /\ shown' >= 1
              /\ reloads' = reloads + shown'
              /\ Notices(ui') = {EventAlert(last'.h, last'.r)}
              /\ reload_doc \in ui'
         ELSE /\ shown' = 0
              /\ reloads' = reloads
              /\ ui' = {}]_vars

C15_Witness ==
    /\ last.h = "whatsapp_new_message"
    /\ last.r.lead = lead
    /\ shown >= 1
    /\ reloads >= 1

\* C16: the duration reported on a successful end is floor(d/60) minutes
\* and d mod 60 seconds of the backend's duration_seconds d, whatever the
\* local counter holds.
C16_BackendDurationReported ==
    (last.h = "end" /\ Succeeded(last.r)) =>
        \E e \in Notices(ui) :
            /\ Len(e.args) = 2
            /\ e.args[1] * 60 + e.args[2] = last.r.duration_seconds
            /\ e.args[2] \in 0..59
            /\ last.r.duration_seconds = 125 => e.args = <<2, 5>>

C16_Witness ==
    /\ last.h = "end"
    /\ Succeeded(last.r)
    /\ last.r.duration_seconds = 125
    /\ callSeconds = 2
    /\ \E e \in Notices(ui) : e.args = <<2, 5>>

\* Two decimal digits of a number below 100.
TwoDigits(n) == <<DigitChar[(n \div 10) + 1], DigitChar[(n % 10) + 1]>>
MMSS(s) == TwoDigits(s \div 60) \o <<":">> \o TwoDigits(s % 60)

\* C17: format_duration(s), and the timer display written by the tick that
\* brings the counter to s, are the two digits of floor(s/60), a colon and
\* the two digits of s mod 60.
C17_DurationFormat ==
    /\ fmtOut # <<>> => fmtOut = MMSS(fmtIn)
    /\ last.h = "interval.tick" => sessions[last.s].display = MMSS(callSeconds)

C17_Witness ==
    /\ last.h = "interval.tick"
    /\ callSeconds = 65
    /\ sessions[last.s].display = <<"0", "1", ":", "0", "5">>
    /\ fmtIn = 125
    /\ fmtOut = <<"0", "2", ":", "0", "5">>

\* C18: at most one interval increments the shared counter at any time.
C18_SingleInterval == Cardinality(running) <= 1

\* C19: the badge only moves forward, and once End Call has been pressed
\* the badge of that widget never changes again.
C19_StatusFinalAfterEnd ==
    [][\A s \in DOMAIN sessions :
          /\ sessions[s].badge = "Ringing..." => sessions'[s].badge # "Connecting..."
          /\ sessions[s].badge = "Connected" => sessions'[s].badge = "Connected"
          /\ sessions[s].badge = "Connecting..." => sessions'[s].badge # "Connected"
          /\ sessions[s].endClicked => sessions'[s].badge = sessions[s].badge]_vars

\* C21: the compose dialog is built only by the get_templates callback that
\* the answered window check issued, and a window response that is absent
\* or lacks in_window leaves a status for which the dialog offers the
\* Template type only; 'Text Message' is offered only on in_window true.
C21_ComposeFailsClosed ==
    [][/\ (last'.h = "check_conversation_window"
            /\ (~last'.r.present \/ ~last'.r.has_in_window)) =>
              /\ tplReq' # {}
              /\ \A ws \in tplReq' \ tplReq : ~ws.has_in_window
       /\ dialog'.created /\ ~dialog.created =>
              last'.h = "get_templates"
       /\ last'.h = "get_templates" =>
              /\ windowReq = 0
              /\ \E ws \in tplReq \ tplReq' :
                    /\ dialog'.window_status = ws
                    /\ ~ws.has_in_window => dialog'.typeOptions = {"Template"}
                    /\ "Text Message" \in dialog'.typeOptions =>
                          ws.has_in_window /\ ws.in_window
       /\ dialog'.created /\ dialog.created /\ last'.h # "get_templates" =>
              dialog'.typeOptions = dialog.typeOptions]_vars

C21_Witness ==
    /\ last.h = "get_templates"
    /\ dialog.created /\ dialog.open
    /\ ~dialog.window_status.has_in_window
    /\ dialog.typeOptions = {"Template"}
    /\ windowReq = 0

====
